---- MODULE Spec2Model ----
(***************************************************************************)
(* Model of knuth(T, a, m) in src/misc/spectral.py: Knuth's spectral test  *)
(* (Algorithm S, steps S1..S10) as the Python source executes it.          *)
(*                                                                         *)
(* Python lists are modelled as sequences; the source's indices i, j, k    *)
(* keep their 0-based values and a list element l[i] is read as l[i+1].    *)
(* Python integers are unbounded; every value reached within the bounds    *)
(* below is far inside TLC's integer range.                                *)
(***************************************************************************)
EXTENDS Integers, Sequences, FiniteSets, TLC

\* Bounds of the explored inputs.
MaxM == 15
MaxT == 6

VARIABLES T, a, m,                     \* arguments of knuth
          pc, err,                     \* position in knuth, raised exception
          t, h, h_prime, p, p_prime,   \* S1 locals
          r, s, q, u, v, v2,
          U, V,                        \* primal and dual basis (lists of rows)
          k, j,                        \* S5/S6 and S8..S10 indices
          i,                           \* position of the running for loop
          X, Y, Z,                     \* search state
          result                       \* returned value

vars == <<T, a, m, pc, err, t, h, h_prime, p, p_prime, r, s, q, u, v, v2,
          U, V, k, j, i, X, Y, Z, result>>

----------------------------------------------------------------------------
\* Helpers of spectral.py

Abs(x) == IF x < 0 THEN -x ELSE x

Min2(x, y) == IF x <= y THEN x ELSE y

\* sum(map(operator.mul, list1, list2)): map stops at the shorter list.
RECURSIVE DotUpTo(_, _, _)
DotUpTo(list1, list2, n) ==
    IF n = 0 THEN 0 ELSE DotUpTo(list1, list2, n - 1) + list1[n] * list2[n]

dot(list1, list2) == DotUpTo(list1, list2, Min2(Len(list1), Len(list2)))

add(list1, list2) ==
    [e \in 1..Min2(Len(list1), Len(list2)) |-> list1[e] + list2[e]]

scalarmult(scalar, list1) == [e \in 1..Len(list1) |-> scalar * list1[e]]

sub(list1, list2) == add(list1, scalarmult(-1, list2))

\* n * [0]
Zeros(n) == [e \in 1..n |-> 0]

\* The value sqrt(x) of math.sqrt, kept symbolically by its radicand.
NoValue == [kind |-> "none", arg |-> 0]
Sqrt(x) == [kind |-> "sqrt", arg |-> x]

----------------------------------------------------------------------------
\* knuth(T, a, m) is entered; no local is bound yet.
Unset ==
    /\ pc = "S1" /\ err = "none"
    /\ t = 0 /\ h = 0 /\ h_prime = 0 /\ p = 0 /\ p_prime = 0
    /\ r = 0 /\ s = 0 /\ q = 0 /\ u = 0 /\ v = 0 /\ v2 = NoValue
    /\ U = <<>> /\ V = <<>> /\ k = 0 /\ j = 0 /\ i = 0
    /\ X = <<>> /\ Y = <<>> /\ Z = <<>>
    /\ result = NoValue

\* knuth called with arguments that satisfy 1 <= a < m, m > 1, T >= 2.
Init ==
    /\ m \in 2..MaxM
    /\ a \in 1..(m - 1)
    /\ T \in 2..MaxT
    /\ Unset

\* S1) initialize the values
S1 ==
    /\ pc = "S1"
    /\ t' = 2
    /\ h' = a
    /\ h_prime' = m
    /\ p' = 1
    /\ p_prime' = 0
    /\ r' = a
    /\ s' = 1 + a * a
    /\ pc' = "S2"
    /\ UNCHANGED <<T, a, m, i, err, q, u, v, v2, U, V, k, j, X, Y, Z, result>>

\* S2) Euclidean step: q = h_prime // h raises ZeroDivisionError when h = 0.
S2 ==
    /\ pc = "S2"
    /\ IF h = 0
         THEN /\ pc' = "error"
              /\ err' = "ZeroDivisionError"
              /\ UNCHANGED <<q, u, v>>
         ELSE /\ q' = h_prime \div h
              /\ u' = h_prime - (h_prime \div h) * h
              /\ v' = p_prime - (h_prime \div h) * p
              /\ pc' = "S2while"
              /\ UNCHANGED err
    /\ UNCHANGED <<T, a, m, i, t, h, h_prime, p, p_prime, r, s, v2, U, V, k, j,
                   X, Y, Z, result>>

\* EuclidAccepts with the comparison turned around.
EuclidAccepts_Flipped(uu, vv, ss) == uu * uu + vv * vv > ss

\* while u**2 + v**2 < s
EuclidAccepts(uu, vv, ss) == uu * uu + vv * vv < ss

S2Accept ==
    /\ pc = "S2while"
    /\ EuclidAccepts(u, v, s)
    /\ s' = u * u + v * v
    /\ h_prime' = h
    /\ h' = u
    /\ p_prime' = p
    /\ p' = v
    /\ pc' = "S2"
    /\ UNCHANGED <<T, a, m, i, err, t, r, q, u, v, v2, U, V, k, j, X, Y, Z, result>>

\* S3Candidate without the test: the candidate always replaces s.
S3Candidate_Unguarded(uu, vv, ss) == uu * uu + vv * vv

\* S3)a: the candidate (u - h, v - p) replaces s only if it is smaller.
S3Candidate(uu, vv, ss) == IF uu * uu + vv * vv < ss THEN uu * uu + vv * vv ELSE ss

S3a ==
    /\ pc = "S2while"
    /\ ~EuclidAccepts(u, v, s)
    /\ u' = u - h
    /\ v' = v - p
    /\ s' = S3Candidate(u - h, v - p, s)
    /\ v2' = Sqrt(S3Candidate(u - h, v - p, s))
    /\ pc' = "S3"
    /\ UNCHANGED <<T, a, m, i, err, t, h, h_prime, p, p_prime, r, q, U, V, k, j,
                   X, Y, Z, result>>

\* ReturnsAfterEuclid with the test T < 2.
ReturnsAfterEuclid_Below2(TT) == TT < 2

\* if T == 2: return v2
ReturnsAfterEuclid(TT) == TT = 2

Return2 ==
    /\ pc = "S3"
    /\ ReturnsAfterEuclid(T)
    /\ result' = v2
    /\ pc' = "done"
    /\ UNCHANGED <<T, a, m, i, err, t, h, h_prime, p, p_prime, r, s, q, u, v, v2,
                   U, V, k, j, X, Y, Z>>

\* S3)b - set up U and V matrices
InitU(hh, hp, pp, ppr) == << <<-hh, pp>>, <<-hp, ppr>> >>

\* InitV with the sign chosen by p_prime < 0.
InitV_StrictSign(hh, hp, pp, ppr) ==
    IF ppr < 0 THEN << <<ppr, hp>>, <<-pp, -hh>> >>
               ELSE << <<-ppr, -hp>>, <<pp, hh>> >>

InitV(hh, hp, pp, ppr) ==
    IF ppr <= 0 THEN << <<ppr, hp>>, <<-pp, -hh>> >>
                ELSE << <<-ppr, -hp>>, <<pp, hh>> >>

S3b ==
    /\ pc = "S3"
    /\ ~ReturnsAfterEuclid(T)
    /\ U' = InitU(h, h_prime, p, p_prime)
    /\ V' = InitV(h, h_prime, p, p_prime)
    /\ pc' = "while"
    /\ UNCHANGED <<T, a, m, i, err, t, h, h_prime, p, p_prime, r, s, q, u, v, v2,
                   k, j, X, Y, Z, result>>

----------------------------------------------------------------------------
\* S4) advance step

\* for row in U: row.append(0); U.append([-r] + (t-2)*[0] + [1])
ExtendU(UU, rr, tt) ==
    Append([e \in 1..Len(UU) |-> Append(UU[e], 0)],
           <<-rr>> \o Zeros(tt - 2) \o <<1>>)

\* for row in V: row.append(0); V.append((t-1)*[0] + [m])
ExtendV(VV, mm, tt) ==
    Append([e \in 1..Len(VV) |-> Append(VV[e], 0)], Zeros(tt - 1) \o <<mm>>)

\* q = V[i][0] * r // m
CenterQuotient(x, rr, mm) == (x * rr) \div mm

S4 ==
    /\ pc = "while"
    /\ t < T
    /\ IF m = 0
         THEN /\ pc' = "error"
              /\ err' = "ZeroDivisionError"
              /\ UNCHANGED <<t, r, U, V, i>>
         ELSE /\ t' = t + 1
              /\ r' = (a * r) % m
              /\ U' = ExtendU(U, r', t')
              /\ V' = ExtendV(V, m, t')
              /\ i' = 0
              /\ pc' = "S4for"
              /\ UNCHANGED err
    /\ UNCHANGED <<T, a, m, h, h_prime, p, p_prime, s, q, u, v, v2, k, j,
                   X, Y, Z, result>>

\* one pass of the body of for i in range(0, t-1)
S4Row ==
    /\ pc = "S4for"
    /\ i < t - 1
    /\ q' = CenterQuotient(V[i + 1][1], r, m)
    /\ V' = [V EXCEPT ![i + 1][t] = V[i + 1][1] * r - q' * m]
    /\ U' = [U EXCEPT ![t] = add(U[t], scalarmult(q', U[i + 1]))]
    /\ i' = i + 1
    /\ UNCHANGED <<T, a, m, pc, err, t, h, h_prime, p, p_prime, r, s, u, v, v2,
                   k, j, X, Y, Z, result>>

\* s = min(s, dot(U[t-1], U[t-1])); k = t-1; j = 0
S4End ==
    /\ pc = "S4for"
    /\ ~(i < t - 1)
    /\ s' = Min2(s, dot(U[t], U[t]))
    /\ k' = t - 1
    /\ j' = 0
    /\ pc' = "S5"
    /\ UNCHANGED <<T, a, m, err, t, h, h_prime, p, p_prime, r, q, u, v, v2,
                   U, V, i, X, Y, Z, result>>

----------------------------------------------------------------------------
\* S5) Transform

\* PyRound as int(n / d): the quotient truncated toward zero.
PyRound_Truncated(n, d) == IF n >= 0 THEN n \div d ELSE -((-n) \div d)

\* round(n / d) for integers n, d with d > 0: Python 3 rounds to the nearest
\* integer and a tie to the even neighbour.  n / d is a double; for the
\* inputs explored here it is exact enough that the rounding is that of the
\* rational n/d.
PyRound(n, d) ==
    LET f   == n \div d
        rem == n - f * d
    IN  IF 2 * rem < d THEN f
        ELSE IF 2 * rem > d THEN f + 1
        ELSE IF f % 2 = 0 THEN f ELSE f + 1

\* abs(2*dot(V[i], V[j])) > dot(V[j], V[j])
NeedsTransform(Vi, Vj) == Abs(2 * dot(Vi, Vj)) > dot(Vj, Vj)

\* while j != k: the loop is entered
S5 ==
    /\ pc = "S5"
    /\ j # k
    /\ i' = 0
    /\ pc' = "S5for"
    /\ UNCHANGED <<T, a, m, err, t, h, h_prime, p, p_prime, r, s, q, u, v, v2,
                   U, V, k, j, X, Y, Z, result>>

\* one pass of the body of for i in range(t)
S5Row ==
    /\ pc = "S5for"
    /\ i < t
    /\ IF i # j /\ NeedsTransform(V[i + 1], V[j + 1])
         THEN /\ q' = PyRound(dot(V[i + 1], V[j + 1]), dot(V[j + 1], V[j + 1]))
              /\ V' = [V EXCEPT ![i + 1] = sub(V[i + 1], scalarmult(q', V[j + 1]))]
              /\ U' = [U EXCEPT ![j + 1] = add(U[j + 1], scalarmult(q', U[i + 1]))]
              /\ s' = Min2(s, dot(U'[j + 1], U'[j + 1]))
              /\ k' = j
         ELSE UNCHANGED <<q, V, U, s, k>>
    /\ i' = i + 1
    /\ UNCHANGED <<T, a, m, pc, err, t, h, h_prime, p, p_prime, r, u, v, v2, j,
                   X, Y, Z, result>>

\* S6) Advance j
AdvanceJ(jj, tt) == IF jj = tt - 1 THEN 0 ELSE jj + 1

S6 ==
    /\ pc = "S5for"
    /\ ~(i < t)
    /\ j' = AdvanceJ(j, t)
    /\ pc' = "S5"
    /\ UNCHANGED <<T, a, m, err, t, h, h_prime, p, p_prime, r, s, q, u, v, v2,
                   U, V, k, i, X, Y, Z, result>>

----------------------------------------------------------------------------
\* S7) Prepare for search

Isqrt(n) == CHOOSE z \in 0..n : z * z <= n /\ (z + 1) * (z + 1) > n

\* floor(sqrt(dot(V[j], scalarmult(s/(m**2), V[j])))).  The source evaluates
\* this in double precision; for the inputs explored here every intermediate
\* is a small rational and the result is the exact floor(sqrt(Vj.Vj*s/m^2)).
SearchBound(Vj, ss, mm) == Isqrt((dot(Vj, Vj) * ss) \div (mm * mm))

S7 ==
    /\ pc = "S5"
    /\ j = k
    /\ X' = Zeros(t)
    /\ Y' = Zeros(t)
    /\ k' = t - 1
    /\ Z' = [n \in 1..t |-> SearchBound(V[n], s, m)]
    /\ j' = t - 1
    /\ pc' = "S8"
    /\ UNCHANGED <<T, a, m, i, err, t, h, h_prime, p, p_prime, r, s, q, u, v, v2,
                   U, V, result>>

\* l[i] for a Python list l and an index i that may be negative
PyItem(l, n) == IF n >= 0 THEN l[n + 1] ELSE l[Len(l) + n + 1]

\* while X[k] != Z[k] and k >= 0
SearchContinues(XX, ZZ, kk) == PyItem(XX, kk) # PyItem(ZZ, kk) /\ kk >= 0

\* S8) advance Xk, S9) advance k, S10) decrease k: one pass of the while body.
\* Y += U[k] extends the list Y by the elements of U[k].  In S9 the statement
\* Y -= scalarmult(...) on two lists raises TypeError.
S8 ==
    /\ pc = "S8"
    /\ SearchContinues(X, Z, k)
    /\ Y' = Y \o U[k + 1]
    /\ IF k + 1 <= t - 1
         THEN /\ X' = [X EXCEPT ![k + 1] = X[k + 1] + 1, ![k + 2] = -Z[k + 2]]
              /\ k' = k + 1
              /\ pc' = "error"
              /\ err' = "TypeError"
              /\ UNCHANGED s
         ELSE /\ X' = [X EXCEPT ![k + 1] = X[k + 1] + 1]
              /\ s' = Min2(s, dot(Y', Y'))
              /\ k' = (k + 1) - 1
              /\ pc' = "S8"
              /\ UNCHANGED err
    /\ UNCHANGED <<T, a, m, i, t, h, h_prime, p, p_prime, r, q, u, v, v2, U, V, j,
                   Z, result>>

\* the search loop is left; back to the test of while t < T
S10 ==
    /\ pc = "S8"
    /\ ~SearchContinues(X, Z, k)
    /\ pc' = "while"
    /\ UNCHANGED <<T, a, m, i, err, t, h, h_prime, p, p_prime, r, s, q, u, v, v2,
                   U, V, k, j, X, Y, Z, result>>

\* return sqrt(s)
Return ==
    /\ pc = "while"
    /\ ~(t < T)
    /\ result' = Sqrt(s)
    /\ pc' = "done"
    /\ UNCHANGED <<T, a, m, i, err, t, h, h_prime, p, p_prime, r, s, q, u, v, v2,
                   U, V, k, j, X, Y, Z>>

Next ==
    \/ S1 \/ S2 \/ S2Accept \/ S3a \/ Return2 \/ S3b
    \/ S4 \/ S4Row \/ S4End \/ S5 \/ S5Row \/ S6
    \/ S7 \/ S8 \/ S10 \/ Return

Spec == Init /\ [][Next]_vars

\* knuth checks none of its arguments: any integers can be passed.
InitAny ==
    /\ m \in 0..MaxM
    /\ a \in 0..MaxM
    /\ T \in 1..MaxT
    /\ Unset

SpecAny == InitAny /\ [][Next]_vars

\* knuth is sequential code with no suspension point: a step that can be
\* taken is taken.
FairSpec == Spec /\ WF_vars(Next)

----------------------------------------------------------------------------
\* The lattice knuth is about: the nonzero integer vectors x of length tt with
\* x_1 + a*x_2 + ... + a^(tt-1)*x_tt = 0 (mod m).

RECURSIVE Power(_, _)
Power(b, e) == IF e = 0 THEN 1 ELSE b * Power(b, e - 1)

RECURSIVE PolyUpTo(_, _)
PolyUpTo(x, n) == IF n = 0 THEN 0 ELSE PolyUpTo(x, n - 1) + x[n] * Power(a, n - 1)

InLattice(x, tt) == x # Zeros(tt) /\ PolyUpTo(x, tt) % m = 0

\* the vectors whose squared norm can be at most n
Box(tt, n) == [1..tt -> (-Isqrt(n))..Isqrt(n)]

IsMinNorm(tt, n) ==
    /\ \E x \in Box(tt, n) : InLattice(x, tt) /\ dot(x, x) = n
    /\ ~\E x \in Box(tt, n) : InLattice(x, tt) /\ dot(x, x) < n

\* sum_j X[j]*U[j] over the first n rows
RECURSIVE Combination(_, _, _, _)
Combination(XX, UU, n, tt) ==
    IF n = 0 THEN Zeros(tt)
    ELSE add(Combination(XX, UU, n - 1, tt), scalarmult(XX[n], UU[n]))

\* the precondition the data model puts on the arguments
ValidParams == m > 1 /\ 1 <= a /\ a < m /\ T >= 2

\* a dimension is complete: after S3a (t = 2), after the search (t >= 3)
EndOfDimension == pc = "S3" \/ (pc = "while" /\ t >= 3) \/ pc = "done"

\* the while j != k loop has just been left
SearchBegins == pc = "S5" /\ j = k

\* row t-1 of V is no longer the row (0, ..., 0, m) that S4 appended
LastRowReduced == V[t] # Zeros(t - 1) \o <<m>>

----------------------------------------------------------------------------
\* C1: when the search phase of dimension t >= 3 finishes, s is the minimum of
\* Y.Y over all nonzero vectors of the lattice, not only over the vectors the
\* reduction phase constructed.
C1_SearchFindsMinimum == (pc = "while" /\ t >= 3) => IsMinNorm(t, s)

\* C2: U * transpose(V) = m * I for the 2x2 matrices of S3 and in every later
\* dimension, after every extension and reduction step.
C2_Duality ==
    (Len(U) > 0 /\ pc # "S4for") =>
        /\ Len(U) = t /\ Len(V) = t
        /\ \A i1 \in 1..t : \A j1 \in 1..t :
               dot(U[i1], V[j1]) = IF i1 = j1 THEN m ELSE 0

\* C2 witness: a dimension t >= 4 whose reduction changed the appended dual
\* row and has reached the search.
C2_Witness == SearchBegins /\ t >= 4 /\ LastRowReduced

\* C3: for every 1 <= a < m the Euclidean initialization completes without an
\* error and leaves s equal to the minimum of x1^2 + x2^2 over the nonzero
\* pairs with x1 + a*x2 = 0 (mod m).
C3_EuclidExact == err = "none" /\ (pc = "S3" => IsMinNorm(2, s))

C5_InvalidRejected ==
    ~ValidParams =>
        \/ pc \in {"S1", "S2"} /\ result = NoValue
        \/ pc = "error" /\ err = "InvalidParameters"

\* C6: with T = 2 knuth returns v_2 = sqrt(s) right after the Euclidean
\* initialization: U and V are never built and no step of S4..S10 runs.
C6_T2ShortCircuit ==
    T = 2 =>
        /\ U = <<>> /\ V = <<>> /\ X = <<>> /\ Y = <<>> /\ Z = <<>>
        /\ pc \in {"S1", "S2", "S2while", "S3", "done", "error"}
        /\ pc = "done" => (result = Sqrt(s) /\ result = v2 /\ t = 2)

\* C6 witness: a call with T = 2 has returned sqrt(s).
C6_Witness == T = 2 /\ pc = "done" /\ result = Sqrt(s)

\* C7: when the search phase begins, no two distinct rows i, j of V (the
\* appended row j = t-1 included) have |2*(V[i].V[j])| > V[j].V[j].
C7_ReductionFixedPoint ==
    SearchBegins =>
        \A i1 \in 1..t : \A j1 \in 1..t :
            i1 # j1 => ~NeedsTransform(V[i1], V[j1])

\* C8: the reduction loop of every dimension terminates: from the loop the
\* search phase is eventually reached.
C8_ReductionTerminates == (pc = "S5" \/ pc = "S5for") ~> (pc = "S8")

\* C8 witness: the search of a dimension is reached after the reduction
\* subtracted from the appended dual row.
C8_Witness == pc = "S8" /\ X = Zeros(t) /\ Len(Y) = t /\ LastRowReduced

\* C9: whenever the search updates s = min(s, Y.Y), Y is a vector of length t
\* equal to sum_j X[j]*U[j] and every |X[j]| <= Z[j].
C9_YIsCombination ==
    [][(pc = "S8" /\ pc' = "S8") =>
          /\ Len(Y') = t
          /\ Y' = Combination(X', U, t, t)
          /\ \A i1 \in 1..t : Abs(X'[i1]) <= Z[i1]]_vars

\* C10: after S1 has set it, s never increases in any step of any phase or
\* between dimensions, and s stays >= 1.
C10_SNeverIncreases == [][pc # "S1" => (s' <= s /\ s' >= 1)]_vars

\* C10 witness: in dimension 3 or later s is below its value at the end of
\* dimension 2.
C10_Witness == pc = "S8" /\ t >= 3 /\ v2.kind = "sqrt" /\ s < v2.arg
====
